---- MODULE Spec2Model ----
(***************************************************************************)
(* StablehloToTflPass (stablehlo_tfl_pass.cc): every operation of the      *)
(* "stablehlo" dialect in a function is replaced by a tfl.custom operation *)
(* whose custom_option is a flexbuffer map built from the operation's      *)
(* attributes by BuildOption.                                              *)
(***************************************************************************)
EXTENDS Integers, Sequences, FiniteSets, TLC

\* ------------------------------------------------------------------ bounds
\* Operations in the body of the function under legalization (Spec).
MaxOps == 3
\* Attributes of the single operation under encoding (SpecEnc).
MaxAttrs == 3

\* --------------------------------------------------------------- integers
\* An integer of w bits is [width, limbs]: its two's complement bits in 16
\* bit limbs, least significant first, the unused high bits of the last limb
\* zero. An int64_t is the four limbs alone.
I64Width == 64
I128Width == 128
LimbBits == 16
LimbMax == 2 ^ LimbBits - 1

NumLimbs(w) == (w + LimbBits - 1) \div LimbBits
\* The bits of the last limb in use, and the limb with all of them set.
TopBits(w) == ((w - 1) % LimbBits) + 1
TopMask(w) == 2 ^ TopBits(w) - 1

APInt(w, limbs) == [width |-> w, limbs |-> limbs]
\* 0 <= n < 2^16 as a w-bit integer.
NatInt(n, w) == APInt(w, [i \in 1..NumLimbs(w) |-> IF i = 1 THEN n ELSE 0])
\* -1, 2^(w-1) - 1 and -2^(w-1) as w-bit integers.
MinusOneInt(w) ==
  APInt(w, [i \in 1..NumLimbs(w) |-> IF i = NumLimbs(w) THEN TopMask(w) ELSE LimbMax])
MaxSInt(w) ==
  APInt(w, [i \in 1..NumLimbs(w) |->
              IF i = NumLimbs(w) THEN 2 ^ (TopBits(w) - 1) - 1 ELSE LimbMax])
MinSInt(w) ==
  APInt(w, [i \in 1..NumLimbs(w) |-> IF i = NumLimbs(w) THEN 2 ^ (TopBits(w) - 1) ELSE 0])
\* 2^(16 * k) as a w-bit integer, 16 * k < w - 1.
Pow2Int(k, w) == APInt(w, [i \in 1..NumLimbs(w) |-> IF i = k + 1 THEN 1 ELSE 0])

IsNegative(a) == a.limbs[NumLimbs(a.width)] >= 2 ^ (TopBits(a.width) - 1)

\* APInt::sext / llvm::SignExtend64: the limbs of a widened to n >= a.width bits.
SExt(a, n) ==
  LET top == NumLimbs(a.width)
      fill == IF IsNegative(a) THEN LimbMax ELSE 0
  IN [i \in 1..NumLimbs(n) |->
        IF i < top THEN a.limbs[i]
        ELSE IF i = top THEN a.limbs[i] + (IF IsNegative(a) THEN LimbMax - TopMask(a.width) ELSE 0)
        ELSE fill]

\* APInt::getSignificantBits() <= 64 of a value wider than 64 bits.
FitsInt64(a) ==
  LET low == NumLimbs(I64Width)
      fill == IF a.limbs[low] >= 2 ^ (LimbBits - 1) THEN LimbMax ELSE 0
  IN \A i \in (low + 1)..NumLimbs(a.width) : a.limbs[i] = fill

\* APInt::getSExtValue as IntegerAttr::getInt calls it: a single-word value is
\* sign extended; a wider one asserts that it fits and returns its low word.
\* ok = FALSE is the failed assertion of a build with assertions.
GetInt(a, asserts) ==
  IF a.width <= I64Width
    THEN [ok |-> TRUE, val |-> SExt(a, I64Width)]
    ELSE [ok |-> FitsInt64(a) \/ ~asserts, val |-> SubSeq(a.limbs, 1, NumLimbs(I64Width))]

\* int64_t of a small dimension number.
I64(n) == NatInt(n, I64Width).limbs

\* ----------------------------------------------------------------- floats
\* A finite normal binary float: sign, unbiased exponent and the fraction
\* after the leading 1 in 4 bit digits, most significant first, the unused
\* low bits of the last digit zero.
\* The 52 fraction bits of a double, in digits.
F64FracBits == 52
F64FracDigits == F64FracBits \div 4
F64MaxExp == 1023
FracDigits(fmt) ==
  CASE fmt = "f16" -> 3
    [] fmt = "bf16" -> 2
    [] fmt = "f32" -> 6
    [] fmt = "f64" -> F64FracDigits
    [] fmt = "f128" -> 28

PadFrac(frac, n) == [i \in 1..n |-> IF i <= Len(frac) THEN frac[i] ELSE 0]

\* The fraction plus one unit in the last place; carry is the overflow into
\* the exponent.
IncFrac(frac) ==
  LET low == {i \in 1..Len(frac) : frac[i] < 15}
      k == IF low = {} THEN 0 ELSE CHOOSE i \in low : \A j \in low : j <= i
  IN [carry |-> low = {},
      frac |-> [i \in 1..Len(frac) |->
                  IF i < k THEN frac[i] ELSE IF i = k THEN frac[i] + 1 ELSE 0]]

\* FloatAttr::getValueAsDouble: APFloat::convert to IEEEdouble, round to
\* nearest, ties to even, then convertToDouble. Values below the normal
\* range of a double are outside the inputs drawn.
GetValueAsDouble(f) ==
  IF Len(f.frac) <= F64FracDigits
    THEN [cls |-> "normal", sign |-> f.sign, exp |-> f.exp,
          frac |-> PadFrac(f.frac, F64FracDigits)]
    ELSE
      LET kept == SubSeq(f.frac, 1, F64FracDigits)
          next == f.frac[F64FracDigits + 1]
          sticky == next % 8 # 0 \/ \E i \in (F64FracDigits + 2)..Len(f.frac) : f.frac[i] # 0
          up == next >= 8 /\ (sticky \/ kept[F64FracDigits] % 2 = 1)
          inc == IncFrac(kept)
          frac == IF up THEN inc.frac ELSE kept
          exp == IF up /\ inc.carry THEN f.exp + 1 ELSE f.exp
      IN IF exp > F64MaxExp
           THEN [cls |-> "inf", sign |-> f.sign, exp |-> 0,
                 frac |-> [i \in 1..F64FracDigits |-> 0]]
           ELSE [cls |-> "normal", sign |-> f.sign, exp |-> exp, frac |-> frac]

\* ---------------------------------------------------------------- strings
\* A byte string is the sequence of its NUL-free segments: <<"hi">> is "hi",
\* <<"a", "b">> is "a\0b". A const char* read stops at the first NUL.
Str(s) == <<s>>
CStr(bytes) == <<bytes[1]>>

\* ------------------------------------------------------------- attributes
\* An attribute is [kind, v]; kind is the mlir::Attribute class that isa<>
\* tests, v the value the accessors used by BuildOption return.
IntegerAttr(a) == [kind |-> "Integer", v |-> a]
FloatAttr(fmt, sign, exp, frac) ==
  [kind |-> "Float", v |-> [fmt |-> fmt, sign |-> sign, exp |-> exp, frac |-> frac]]
StringAttr(bytes) == [kind |-> "String", v |-> bytes]
\* etype is the element type; vals holds the integers or the floats.
ElementsAttr(etype, vals) == [kind |-> "Elements", v |-> [etype |-> etype, vals |-> vals]]
DenseI64ArrayAttr(vals) == [kind |-> "DenseI64Array", v |-> vals]
DenseBoolArrayAttr(vals) == [kind |-> "DenseBoolArray", v |-> vals]
ArrayAttr(elems) == [kind |-> "Array", v |-> elems]
PrecisionAttr(p) == [kind |-> "Precision", v |-> p]
ComparisonDirectionAttr(d) == [kind |-> "ComparisonDirection", v |-> d]
ComparisonTypeAttr(t) == [kind |-> "ComparisonType", v |-> t]
\* The stablehlo dimension-number attributes: d is the record of what their
\* getters return, int64_t scalars and ArrayRef<int64_t> sequences.
ConvDimensionNumbersAttr(d) == [kind |-> "ConvDimensionNumbers", v |-> d]
GatherDimensionNumbersAttr(d) == [kind |-> "GatherDimensionNumbers", v |-> d]
ScatterDimensionNumbersAttr(d) == [kind |-> "ScatterDimensionNumbers", v |-> d]
DotDimensionNumbersAttr(d) == [kind |-> "DotDimensionNumbers", v |-> d]
DictionaryAttr(pairs) == [kind |-> "Dictionary", v |-> pairs]
SymbolRefAttr(s) == [kind |-> "SymbolRef", v |-> s]
UnitAttr == [kind |-> "Unit", v |-> 0]
NamedAttribute(name, value) == [name |-> name, value |-> value]

\* ----------------------------------------------------- flexbuffers::Builder
\* The builder is its value stack. A value is [t, v]: t the flexbuffers
\* type, v what a reader of the finished buffer decodes.
FbKey(k) == [t |-> "KEY", v |-> k]
FbInt(i) == [t |-> "INT", v |-> i]
FbFloat(d) == [t |-> "FLOAT", v |-> d]
FbString(s) == [t |-> "STRING", v |-> s]
FbBool(b) == [t |-> "BOOL", v |-> b]
FbVector(typed, elems) == [t |-> "VECTOR", v |-> [typed |-> typed, elems |-> elems]]
FbMap(keys, vals) == [t |-> "MAP", v |-> [keys |-> keys, vals |-> vals]]

\* Builder::StartVector(key): the key is pushed, the stack size returned.
StartVectorKey(stack, key) == Append(stack, FbKey(key))
\* Builder::EndVector(start, typed, fixed = false).
EndVector(stack, start, typed) ==
  Append(SubSeq(stack, 1, start), FbVector(typed, SubSeq(stack, start + 1, Len(stack))))

\* The attribute names of the model in strcmp order.
KeyOrder ==
  <<"a", "axis", "b", "c", "called_computations", "composite_attributes", "d",
    "decomposition", "dimensions", "index", "max_len", "name", "scale", "value",
    "version">>
Strcmp(a, b) ==
  LET ra == CHOOSE i \in 1..Len(KeyOrder) : KeyOrder[i] = a
      rb == CHOOSE i \in 1..Len(KeyOrder) : KeyOrder[i] = b
  IN ra - rb

\* std::sort of the (key, value) pairs by strcmp of the keys.
RECURSIVE InsertPair(_, _)
InsertPair(sorted, p) ==
  IF Len(sorted) = 0 THEN <<p>>
  ELSE IF Strcmp(p.key.v, sorted[1].key.v) < 0 THEN <<p>> \o sorted
  ELSE <<sorted[1]>> \o InsertPair(Tail(sorted), p)

RECURSIVE SortPairs(_)
SortPairs(pairs) ==
  IF Len(pairs) = 0 THEN <<>>
  ELSE InsertPair(SortPairs(SubSeq(pairs, 1, Len(pairs) - 1)), pairs[Len(pairs)])

\* A diagnostic of emitWarning(op->getLoc(), msg) << text.
Warning(msg, loc, text) == [msg |-> msg, loc |-> loc, text |-> text]
WarnUnsupported == "serialization not supported for : "
WarnElements == "serialization of ElementsAttr for "
WarnArray == "serialization of ArrayAttr for "
WarnComposite == "composite has no specializaiton "

\* What a read through the null StringAttr of a failed dyn_cast_or_null may
\* yield when the process survives it.
NullReads == {<<"">>, <<"?">>}

\* ------------------------------------------------------------ BuildOption
\* An outcome of one BuildOption call: the builder's stack after it, the
\* warnings it emitted, and whether the process died in it.
Outcome(stack, warns) == [stack |-> stack, warns |-> warns, crashed |-> FALSE]
Crash(stack) == [stack |-> stack, warns |-> <<>>, crashed |-> TRUE]

\* The values added to the enclosing vector, without a vector of their own.
AddIntegerArrayMutFlat(stack, vec) == stack \o [i \in 1..Len(vec) |-> FbInt(vec[i])]
\* The vector of the values ended as a typed one.
AddIntegerArrayMutTyped(stack, vec) ==
  EndVector(stack \o [i \in 1..Len(vec) |-> FbInt(vec[i])], Len(stack), TRUE)
\* AddIntegerArray: StartVector(), Add of each value, EndVector(untyped).
AddIntegerArray(stack, vec) ==
  EndVector(stack \o [i \in 1..Len(vec) |-> FbInt(vec[i])], Len(stack), FALSE)

\* fbb->Int(key, attr.getInt()).
BuildInteger(stack, key, bits, asserts) ==
  LET r == GetInt(bits, asserts)
  IN IF r.ok THEN {Outcome(stack \o <<FbKey(key), FbInt(r.val)>>, <<>>)}
             ELSE {Crash(stack)}

\* fbb->Double(key, attr.getValueAsDouble()).
BuildFloat(stack, key, f) ==
  {Outcome(stack \o <<FbKey(key), FbFloat(GetValueAsDouble(f))>>, <<>>)}

\* The element-type tests of the ElementsAttr arm.
IsIntegerElementType(etype) == etype \in {"i16", "i32", "i64", "i128", "i1"}
IsFloatElementType(etype) == etype \in {"f32", "f64", "f128"}

\* The tensor arm returning from its warning without EndVector.
BuildElementsMutNoClose(stack, loc, key, e, asserts) ==
  LET started == StartVectorKey(stack, key)
      start == Len(started)
  IN IF IsIntegerElementType(e.etype)
       THEN LET rs == [i \in 1..Len(e.vals) |-> GetInt(e.vals[i], asserts)]
            IN IF \E i \in 1..Len(rs) : ~rs[i].ok
                 THEN {Crash(stack)}
                 ELSE {Outcome(EndVector(started \o [i \in 1..Len(rs) |-> FbInt(rs[i].val)],
                                         start, TRUE), <<>>)}
     ELSE IF IsFloatElementType(e.etype)
       THEN {Outcome(EndVector(started \o [i \in 1..Len(e.vals) |->
                                              FbFloat(GetValueAsDouble(e.vals[i]))],
                               start, TRUE), <<>>)}
     ELSE {Outcome(started, <<Warning(WarnElements, loc, Str(key))>>)}
BuildElements(stack, loc, key, e, asserts) ==
  LET started == StartVectorKey(stack, key)
      start == Len(started)
  IN IF IsIntegerElementType(e.etype)
       THEN LET rs == [i \in 1..Len(e.vals) |-> GetInt(e.vals[i], asserts)]
            IN IF \E i \in 1..Len(rs) : ~rs[i].ok
                 THEN {Crash(stack)}
                 ELSE {Outcome(EndVector(started \o [i \in 1..Len(rs) |-> FbInt(rs[i].val)],
                                         start, TRUE), <<>>)}
     ELSE IF IsFloatElementType(e.etype)
       THEN {Outcome(EndVector(started \o [i \in 1..Len(e.vals) |->
                                              FbFloat(GetValueAsDouble(e.vals[i]))],
                               start, TRUE), <<>>)}
     ELSE {Outcome(EndVector(started, start, TRUE), <<Warning(WarnElements, loc, Str(key))>>)}

BuildDenseI64Array(stack, key, vals) ==
  LET started == StartVectorKey(stack, key)
  IN {Outcome(EndVector(started \o [i \in 1..Len(vals) |-> FbInt(vals[i])],
                        Len(started), TRUE), <<>>)}

BuildDenseBoolArray(stack, key, vals) ==
  LET started == StartVectorKey(stack, key)
  IN {Outcome(EndVector(started \o [i \in 1..Len(vals) |-> FbBool(vals[i])],
                        Len(started), TRUE), <<>>)}

\* fbb->String(key, const char*).
BuildString(stack, key, bytes) ==
  {Outcome(stack \o <<FbKey(key), FbString(CStr(bytes))>>, <<>>)}

\* The ArrayAttr arm. The early return after the warning leaves the key that
\* StartVector pushed on the stack; an element that is neither a StringAttr
\* nor a PrecisionAttr is read through a null StringAttr.
BuildArray(stack, loc, key, elems) ==
  LET started == StartVectorKey(stack, key)
      start == Len(started)
      Entry(el, null) ==
        IF el.kind = "Precision" THEN FbString(Str(el.v))
        ELSE IF el.kind = "String" THEN FbString(CStr(el.v))
        ELSE FbString(null)
      Filled(null) ==
        EndVector(started \o [i \in 1..Len(elems) |-> Entry(elems[i], null)], start, TRUE)
  IN IF Len(elems) > 1 /\ elems[1].kind \notin {"String", "Precision"}
       THEN {Outcome(started, <<Warning(WarnArray, loc, Str(key))>>)}
     ELSE IF \E i \in 1..Len(elems) : elems[i].kind \notin {"String", "Precision"}
       THEN {Crash(stack)} \cup {Outcome(Filled(null), <<>>) : null \in NullReads}
     ELSE {Outcome(Filled(<<"">>), <<>>)}

BuildConvDimensionNumbers(stack, key, d) ==
  LET started == StartVectorKey(stack, key)
      s1 == started \o <<FbInt(d.inputBatchDimension), FbInt(d.inputFeatureDimension)>>
      s2 == AddIntegerArray(s1, d.inputSpatialDimensions)
      s3 == s2 \o <<FbInt(d.kernelInputFeatureDimension),
                    FbInt(d.kernelOutputFeatureDimension)>>
      s4 == AddIntegerArray(s3, d.kernelSpatialDimensions)
      s5 == s4 \o <<FbInt(d.outputBatchDimension), FbInt(d.outputFeatureDimension)>>
      s6 == AddIntegerArray(s5, d.outputSpatialDimensions)
  IN {Outcome(EndVector(s6, Len(started), FALSE), <<>>)}

\* The gather record with startIndexMap written before collapsedSliceDims.
BuildGatherDimensionNumbersMutOrder(stack, key, d) ==
  LET started == StartVectorKey(stack, key)
      s1 == AddIntegerArray(started, d.offsetDims)
      s2 == AddIntegerArray(s1, d.startIndexMap)
      s3 == AddIntegerArray(s2, d.collapsedSliceDims)
      s4 == Append(s3, FbInt(d.indexVectorDim))
  IN {Outcome(EndVector(s4, Len(started), FALSE), <<>>)}
BuildGatherDimensionNumbers(stack, key, d) ==
  LET started == StartVectorKey(stack, key)
      s1 == AddIntegerArray(started, d.offsetDims)
      s2 == AddIntegerArray(s1, d.collapsedSliceDims)
      s3 == AddIntegerArray(s2, d.startIndexMap)
      s4 == Append(s3, FbInt(d.indexVectorDim))
  IN {Outcome(EndVector(s4, Len(started), FALSE), <<>>)}

BuildScatterDimensionNumbers(stack, key, d) ==
  LET started == StartVectorKey(stack, key)
      s1 == AddIntegerArray(started, d.updateWindowDims)
      s2 == AddIntegerArray(s1, d.insertedWindowDims)
      s3 == AddIntegerArray(s2, d.scatterDimsToOperandDims)
      s4 == Append(s3, FbInt(d.indexVectorDim))
  IN {Outcome(EndVector(s4, Len(started), FALSE), <<>>)}

BuildDotDimensionNumbers(stack, key, d) ==
  LET started == StartVectorKey(stack, key)
      s1 == AddIntegerArray(started, d.lhsBatchingDimensions)
      s2 == AddIntegerArray(s1, d.rhsBatchingDimensions)
      s3 == AddIntegerArray(s2, d.lhsContractingDimensions)
      s4 == AddIntegerArray(s3, d.rhsContractingDimensions)
  IN {Outcome(EndVector(s4, Len(started), FALSE), <<>>)}

\* fbb->String(key, std::string) of the stringified enumerator.
BuildEnum(stack, key, name) ==
  {Outcome(stack \o <<FbKey(key), FbString(Str(name))>>, <<>>)}

\* A default arm that also emits the key, with an empty string.
BuildDefaultMutEmit(stack, loc, key) ==
  {Outcome(stack \o <<FbKey(key), FbString(Str(""))>>,
           <<Warning(WarnUnsupported, loc, Str(key))>>)}
\* The default arm: the warning alone.
BuildDefault(stack, loc, key) ==
  {Outcome(stack, <<Warning(WarnUnsupported, loc, Str(key))>>)}

\* BuildOption(fbb, op, pair): the set of its outcomes on the builder.
BuildOption(stack, loc, pair, asserts) ==
  LET key == pair.name
      attr == pair.value
  IN CASE attr.kind = "Integer" -> BuildInteger(stack, key, attr.v, asserts)
       [] attr.kind = "Float" -> BuildFloat(stack, key, attr.v)
       [] attr.kind = "Elements" -> BuildElements(stack, loc, key, attr.v, asserts)
       [] attr.kind = "DenseI64Array" -> BuildDenseI64Array(stack, key, attr.v)
       [] attr.kind = "DenseBoolArray" -> BuildDenseBoolArray(stack, key, attr.v)
       [] attr.kind = "String" -> BuildString(stack, key, attr.v)
       [] attr.kind = "Array" -> BuildArray(stack, loc, key, attr.v)
       [] attr.kind = "ConvDimensionNumbers" -> BuildConvDimensionNumbers(stack, key, attr.v)
       [] attr.kind = "GatherDimensionNumbers" ->
            BuildGatherDimensionNumbers(stack, key, attr.v)
       [] attr.kind = "ScatterDimensionNumbers" ->
            BuildScatterDimensionNumbers(stack, key, attr.v)
       [] attr.kind = "DotDimensionNumbers" -> BuildDotDimensionNumbers(stack, key, attr.v)
       [] attr.kind = "ComparisonDirection" -> BuildEnum(stack, key, attr.v)
       [] attr.kind = "ComparisonType" -> BuildEnum(stack, key, attr.v)
       [] OTHER -> BuildDefault(stack, loc, key)

\* Builder::EndMap(start) with start = 0, then Finish(): the decoded root of
\* the buffer. An odd stack fails EndMap's assertion; without assertions the
\* entries are paired by position, the last one left over, and a pair whose
\* key slot holds no key is used as one (garbage = TRUE: the strcmp and the
\* key vector then read whatever the slot's bits point at).
EndMap(stack, asserts) ==
  LET len == Len(stack) \div 2
      pairs == [i \in 1..len |-> [key |-> stack[2 * i - 1], val |-> stack[2 * i]]]
      keysOk == \A i \in 1..len : pairs[i].key.t = "KEY"
      sorted == SortPairs(pairs)
  IN IF asserts /\ (Len(stack) % 2 = 1 \/ ~keysOk)
       THEN [ok |-> FALSE, garbage |-> FALSE, root |-> FbMap(<<>>, <<>>)]
     ELSE IF ~keysOk
       THEN [ok |-> TRUE, garbage |-> TRUE, root |-> FbMap(<<>>, <<>>)]
     ELSE [ok |-> TRUE, garbage |-> FALSE,
           root |-> FbMap([i \in 1..len |-> sorted[i].key.v],
                          [i \in 1..len |-> sorted[i].val])]

\* -------------------------------------------------------------- the graph
VARIABLES
  ops,            \* id -> operation: the operations of the function, itself included
  body,           \* the ids of the operations inside the function, in textual order
  frames,         \* the walk: one [op, next] per nesting level, the last is visited next
  pc,             \* where the callback on that operation stands: "visit" or "build"
  custom_op_name, \* runOnOperation's local
  options,        \* the pairs of runOnOperation's options not yet passed to BuildOption
  stack,          \* the flexbuffers builder of the callback
  diags,          \* the warnings emitted so far
  status,         \* "walking", "done" or "crashed"
  asserts,        \* whether the build has assertions enabled
  nextId,         \* the id of the next operation created
  visited,        \* history: the ids the callback was invoked on, in order
  calls,          \* history: the BuildOption calls, [op, key]
  log,            \* history: the replacements, [orig, new, operands]
  ops0            \* history: ops as legalization started

vars == <<ops, body, frames, pc, custom_op_name, options, stack, diags, status,
          asserts, nextId, visited, calls, log, ops0>>

\* The function under legalization; it owns the entry block's arguments.
FnId == 0
\* The end of a block's operation list.
NoOp == -1

\* A use of result idx >= 1 of operation def, or, with idx <= 0, of argument
\* -idx of the block that def's region holds.
Value(def, idx) == [def |-> def, idx |-> idx]

Operation(dialect, name, attrs, operands, resultTypes, loc, parent) ==
  [dialect |-> dialect, name |-> name, attrs |-> attrs, operands |-> operands,
   resultTypes |-> resultTypes, loc |-> loc, parent |-> parent]

\* The operations of x's region, in order.
Children(o, b, x) == SelectSeq(b, LAMBDA i : o[i].parent = x)

\* Operation::getNextNode: the operation after x in its block.
NextNode(o, b, x) ==
  LET sibs == Children(o, b, o[x].parent)
      at == CHOOSE i \in 1..Len(sibs) : sibs[i] = x
  IN IF x = FnId \/ at = Len(sibs) THEN NoOp ELSE sibs[at + 1]

\* x and every operation nested in it.
RECURSIVE Nested(_, _, _)
Nested(o, b, x) ==
  {x} \cup UNION {Nested(o, b, c) : c \in {b[i] : i \in {j \in 1..Len(b) : o[b[j]].parent = x}}}

\* detail::walk in post-order over an early-increment range: on reaching x
\* the block iterator already points past x; x's nested operations are
\* walked before the callback on x.
RECURSIVE Descend(_, _, _)
Descend(o, b, x) ==
  <<[op |-> x, next |-> NextNode(o, b, x)]>>
    \o (IF Children(o, b, x) = <<>> THEN <<>> ELSE Descend(o, b, Children(o, b, x)[1]))

\* A walk that does not enter the regions of the operations it reaches.
AdvanceMutFlat(o, b, fr) ==
  LET top == fr[Len(fr)]
      rest == SubSeq(fr, 1, Len(fr) - 1)
  IN IF top.next = NoOp THEN rest
     ELSE Append(rest, [op |-> top.next, next |-> NextNode(o, b, top.next)])
\* The walk after the callback on the last frame's operation returned, in
\* the graph (o, b) the callback left.
Advance(o, b, fr) ==
  LET top == fr[Len(fr)]
      rest == SubSeq(fr, 1, Len(fr) - 1)
  IN IF top.next = NoOp THEN rest ELSE rest \o Descend(o, b, top.next)

Current == frames[Len(frames)].op

GetAttr(op, name) ==
  LET i == CHOOSE i \in 1..Len(op.attrs) : op.attrs[i].name = name
  IN op.attrs[i].value

\* CompositeOp::getName and getCompositeAttributes.
CompositeName(op) == GetAttr(op, "name").v
CompositeAttributes(op) == GetAttr(op, "composite_attributes").v

IsComposite(op) == op.name = "stablehlo.composite"

\* The list without its second entry.
SupportedCompositesMutFirstOnly == {Str("odml.update_kv_cache")}
\* IsSupportedComposite's list.
SupportedComposites == {Str("odml.update_kv_cache"), Str("odml.scaled_dot_product_attention")}
IsSupportedComposite(op) == CompositeName(op) \in SupportedComposites

\* TFL::CustomOp: custom_code and custom_option (ConstBytesAttr of the buffer).
ConstBytesAttr(buffer) == [kind |-> "ConstBytes", v |-> buffer]
CustomCode(op) == op.attrs[1].value.v
CustomOption(op) == op.attrs[2].value.v
\* The custom op built with its operands in reverse.
CustomOpMutReversed(loc, resultTypes, operands, name, option, parent) ==
  Operation("tfl", "tfl.custom",
            <<NamedAttribute("custom_code", StringAttr(name)),
              NamedAttribute("custom_option", option)>>,
            [k \in 1..Len(operands) |-> operands[Len(operands) + 1 - k]],
            resultTypes, loc, parent)
CustomOp(loc, resultTypes, operands, name, option, parent) ==
  Operation("tfl", "tfl.custom",
            <<NamedAttribute("custom_code", StringAttr(name)),
              NamedAttribute("custom_option", option)>>,
            operands, resultTypes, loc, parent)

\* Every use of a result of x rewired to the first result of n.
ReplaceAllUsesWithMutFirst(o, x, n) ==
  [i \in DOMAIN o |->
     [o[i] EXCEPT !.operands =
        [k \in 1..Len(o[i].operands) |->
           IF o[i].operands[k].def = x /\ o[i].operands[k].idx >= 1
             THEN Value(n, 1)
             ELSE o[i].operands[k]]]]
\* Operation::replaceAllUsesWith(new): result i of x becomes result i of n.
ReplaceAllUsesWith(o, x, n) ==
  [i \in DOMAIN o |->
     [o[i] EXCEPT !.operands =
        [k \in 1..Len(o[i].operands) |->
           IF o[i].operands[k].def = x /\ o[i].operands[k].idx >= 1
             THEN Value(n, o[i].operands[k].idx)
             ELSE o[i].operands[k]]]]

\* builder.setInsertionPoint(op); create: n goes right before x in x's block.
InsertBefore(b, x, n) ==
  LET at == CHOOSE i \in 1..Len(b) : b[i] = x
  IN SubSeq(b, 1, at - 1) \o <<n>> \o SubSeq(b, at, Len(b))

\* The erase left out: x stays an operation of the function.
EraseOpsMutKeep(o, b, x) == [i \in DOMAIN o \ (Nested(o, b, x) \ {x}) |-> o[i]]
\* Operation::erase: x leaves its block and is destroyed with its regions.
EraseOps(o, b, x) == [i \in DOMAIN o \ Nested(o, b, x) |-> o[i]]
EraseBody(o, b, x) == SelectSeq(b, LAMBDA i : i \notin Nested(o, b, x))

\* ---------------------------------------------------------------- actions
Finished(fr) == IF fr = <<>> THEN "done" ELSE "walking"

\* Line 262: the callback returns at once on an operation of another dialect.
Skip ==
  /\ status = "walking" /\ pc = "visit"
  /\ ops[Current].dialect # "stablehlo"
  /\ visited' = Append(visited, Current)
  /\ frames' = Advance(ops, body, frames)
  /\ status' = Finished(frames')
  /\ UNCHANGED <<ops, body, pc, custom_op_name, options, stack, diags, asserts,
                 nextId, calls, log, ops0>>

\* Lines 265-276: custom_op_name and options, and the warning of
\* IsSupportedComposite when it answers no.
Unpacks(op) == IsComposite(op) /\ IsSupportedComposite(op)
\* The inner name taken for every composite, allow-listed or not.
ChosenNameMutInner(op) == IF IsComposite(op) THEN CompositeName(op) ELSE Str(op.name)
ChosenName(op) == IF Unpacks(op) THEN CompositeName(op) ELSE Str(op.name)
ChosenOptions(op) == IF Unpacks(op) THEN CompositeAttributes(op) ELSE op.attrs
CompositeWarnings(op) ==
  IF IsComposite(op) /\ ~IsSupportedComposite(op)
    THEN <<Warning(WarnComposite, op.loc, CompositeName(op))>>
    ELSE <<>>

\* Lines 264-281: the name and the attributes to encode, and StartMap.
Begin ==
  /\ status = "walking" /\ pc = "visit"
  /\ ops[Current].dialect = "stablehlo"
  /\ custom_op_name' = ChosenName(ops[Current])
  /\ options' = ChosenOptions(ops[Current])
  /\ diags' = diags \o CompositeWarnings(ops[Current])
  /\ visited' = Append(visited, Current)
  /\ stack' = <<>>
  /\ pc' = "build"
  /\ UNCHANGED <<ops, body, frames, status, asserts, nextId, calls, log, ops0>>

\* Lines 282-285: one iteration of the loop over options.
BuildStep ==
  /\ status = "walking" /\ pc = "build"
  /\ options # <<>>
  /\ calls' = Append(calls, [op |-> Current, key |-> Head(options).name])
  /\ \E r \in BuildOption(stack, ops[Current].loc, Head(options), asserts) :
       IF r.crashed
         THEN /\ status' = "crashed"
              /\ UNCHANGED <<stack, diags, options>>
         ELSE /\ stack' = r.stack
              /\ diags' = diags \o r.warns
              /\ options' = Tail(options)
              /\ UNCHANGED status
  /\ UNCHANGED <<ops, body, frames, pc, custom_op_name, asserts, nextId, visited, log,
                 ops0>>

\* Lines 286-297: EndMap, Finish, the custom op, replaceAllUsesWith, erase.
Replace ==
  /\ status = "walking" /\ pc = "build"
  /\ options = <<>>
  /\ LET x == Current
         m == EndMap(stack, asserts)
         new == CustomOp(ops[x].loc, ops[x].resultTypes, ops[x].operands, custom_op_name,
                         ConstBytesAttr([garbage |-> m.garbage, root |-> m.root]),
                         ops[x].parent)
         created == [i \in DOMAIN ops \cup {nextId} |-> IF i = nextId THEN new ELSE ops[i]]
         inserted == InsertBefore(body, x, nextId)
         rewired == ReplaceAllUsesWith(created, x, nextId)
     IN IF ~m.ok
          THEN /\ status' = "crashed"
               /\ UNCHANGED <<ops, body, frames, pc, nextId, log>>
          ELSE /\ ops' = EraseOps(rewired, inserted, x)
               /\ body' = EraseBody(rewired, inserted, x)
               /\ log' = Append(log, [orig |-> x, new |-> nextId,
                                      operands |-> ops[x].operands])
               /\ nextId' = nextId + 1
               /\ frames' = Advance(ops', body', frames)
               /\ status' = Finished(frames')
               /\ pc' = "visit"
  /\ UNCHANGED <<custom_op_name, options, stack, diags, asserts, visited, calls, ops0>>

Next == Skip \/ Begin \/ BuildStep \/ Replace

\* ----------------------------------------------------------------- inputs
I64Attr(n) == IntegerAttr(NatInt(n, I64Width))
\* 2.5 = 1.01b * 2^1 as f32.
F32TwoAndHalf == FloatAttr("f32", 0, 1, <<4, 0, 0, 0, 0, 0>>)

\* The operations drawn for a function body: what an operation of the kind
\* carries apart from its operands and its place.
OpKind(dialect, name, attrs, resultTypes, region) ==
  [dialect |-> dialect, name |-> name, attrs |-> attrs, resultTypes |-> resultTypes,
   region |-> region]

CompositeKind(name, inner) ==
  OpKind("stablehlo", "stablehlo.composite",
         <<NamedAttribute("composite_attributes", DictionaryAttr(inner)),
           NamedAttribute("decomposition", SymbolRefAttr("impl")),
           NamedAttribute("name", StringAttr(name)),
           NamedAttribute("version", IntegerAttr(NatInt(0, 32)))>>,
         <<"tensor<2xi32>", "tensor<2xf32>">>, FALSE)

OpKinds ==
  { OpKind("stablehlo", "stablehlo.add",
           <<NamedAttribute("axis", I64Attr(1)), NamedAttribute("scale", F32TwoAndHalf)>>,
           <<"tensor<4xf32>">>, FALSE),
    OpKind("tfl", "tfl.while", <<NamedAttribute("value", I64Attr(7))>>,
           <<"tensor<4xi1>">>, TRUE),
    OpKind("stablehlo", "stablehlo.reduce",
           <<NamedAttribute("dimensions", DenseI64ArrayAttr(<<I64(0)>>))>>,
           <<"tensor<i32>", "tensor<f32>">>, TRUE),
    OpKind("stablehlo", "stablehlo.custom_call",
           <<NamedAttribute("called_computations",
                            ArrayAttr(<<SymbolRefAttr("f"), SymbolRefAttr("g")>>))>>,
           <<"tensor<4xf32>">>, FALSE) }

\* The operations op i is nested in, the function included.
RECURSIVE Ancestors(_, _)
Ancestors(parent, i) ==
  IF parent[i] = FnId THEN {FnId} ELSE {parent[i]} \cup Ancestors(parent, parent[i])

\* An operation is nested in one that comes before it.
Nestings(n) == {p \in [1..n -> 0..(n - 1)] : \A i \in 1..n : p[i] < i}

\* parent is the nesting of a body in textual order; regions belong to the
\* kinds that have one.
ValidNesting(n, kind, parent) ==
  \A i \in 1..n :
    /\ IF parent[i] = FnId THEN TRUE ELSE kind[parent[i]].region
    /\ IF i = 1 THEN parent[i] = FnId
                ELSE parent[i] \in {i - 1} \cup Ancestors(parent, i - 1)

\* src[i] is the operation whose results op i uses, or FnId for none: it
\* comes before op i in a block that encloses op i.
ValidUses(n, parent, src) ==
  \A i \in 1..n :
    IF src[i] = FnId THEN TRUE
    ELSE /\ parent[src[i]] \in Ancestors(parent, i)
         /\ src[i] \notin Ancestors(parent, i)

FuncOp == Operation("func", "func.func", <<>>, <<>>, <<>>, 0, NoOp)

Graph(n, kind, parent, src) ==
  [i \in {FnId} \cup 1..n |->
     IF i = FnId THEN FuncOp
     ELSE Operation(kind[i].dialect, kind[i].name, kind[i].attrs,
                    (IF src[i] = FnId
                       THEN <<Value(FnId, -1)>>
                       ELSE [k \in 1..Len(kind[src[i]].resultTypes) |-> Value(src[i], k)])
                      \o <<Value(parent[i], 0)>>,
                    kind[i].resultTypes, i, parent[i])]

InitWalk(o, b) ==
  /\ ops = o
  /\ body = b
  /\ frames = Descend(o, b, FnId)
  /\ pc = "visit"
  /\ custom_op_name = <<>>
  /\ options = <<>>
  /\ stack = <<>>
  /\ diags = <<>>
  /\ status = "walking"
  /\ asserts \in BOOLEAN
  /\ nextId = Len(b) + 1
  /\ visited = <<>>
  /\ calls = <<>>
  /\ log = <<>>
  /\ ops0 = o

\* runOnOperation on a function of up to MaxOps operations.
Init ==
  \E n \in 1..MaxOps :
    \E kind \in [1..n -> OpKinds], parent \in Nestings(n), src \in Nestings(n) :
      /\ ValidNesting(n, kind, parent)
      /\ ValidUses(n, parent, src)
      /\ InitWalk(Graph(n, kind, parent, src), [i \in 1..n |-> i])

Spec == Init /\ [][Next]_vars

\* ------------------------------------------------- inputs of the encoder
\* -0.1 as f64 (the last fraction bit is set).
F64Tenth == FloatAttr("f64", 1, -4, <<9, 9, 9, 9, 9, 9, 9, 9, 9, 9, 9, 9, 10>>)
\* f128 values: one a double holds, one with a fraction bit below a
\* double's last, one above a double's largest exponent.
F128Exact == FloatAttr("f128", 0, 3, [i \in 1..FracDigits("f128") |-> IF i = 1 THEN 8 ELSE 0])
F128Fine == FloatAttr("f128", 0, 0, [i \in 1..FracDigits("f128") |-> IF i = 20 THEN 1 ELSE 0])
F128Huge == FloatAttr("f128", 0, 5000, [i \in 1..FracDigits("f128") |-> 0])

IntegerValues ==
  { I64Attr(1), IntegerAttr(MinSInt(I64Width)), IntegerAttr(MaxSInt(I64Width)),
    IntegerAttr(MinusOneInt(8)), IntegerAttr(NatInt(1, 1)), IntegerAttr(NatInt(5, 32)),
    IntegerAttr(MinusOneInt(I128Width)), IntegerAttr(Pow2Int(4, I128Width)),
    IntegerAttr(MinSInt(I128Width)) }
FloatValues == {F32TwoAndHalf, F64Tenth, F128Exact, F128Fine, F128Huge}
StringValues == {StringAttr(Str("hi")), StringAttr(Str("")), StringAttr(<<"a", "b">>)}
ListValues ==
  { ArrayAttr(<<>>),
    ArrayAttr(<<StringAttr(Str("x")), StringAttr(Str("y"))>>),
    ArrayAttr(<<PrecisionAttr("DEFAULT"), PrecisionAttr("HIGHEST")>>),
    ArrayAttr(<<SymbolRefAttr("f")>>),
    ArrayAttr(<<StringAttr(Str("x")), I64Attr(1)>>),
    ArrayAttr(<<I64Attr(1), I64Attr(2)>>),
    ArrayAttr(<<SymbolRefAttr("f"), StringAttr(Str("x"))>>),
    ArrayAttr(<<StringAttr(Str("x")), PrecisionAttr("HIGH")>>) }
TensorValues ==
  { ElementsAttr("i32", <<NatInt(1, 32), MinusOneInt(32)>>),
    ElementsAttr("i8", <<NatInt(1, 8)>>),
    ElementsAttr("i1", <<NatInt(1, 1), NatInt(0, 1)>>),
    ElementsAttr("i128", <<MinusOneInt(I128Width)>>),
    ElementsAttr("f64", <<F64Tenth.v>>),
    ElementsAttr("complex", <<>>),
    ElementsAttr("f16", <<[fmt |-> "f16", sign |-> 0, exp |-> 0, frac |-> <<8, 0, 0>>]>>),
    DenseI64ArrayAttr(<<I64(2), I64(0)>>),
    DenseBoolArrayAttr(<<TRUE, FALSE>>) }
EnumValues == {ComparisonDirectionAttr("GE"), ComparisonTypeAttr("FLOAT")}
\* Dimension numbers with arrays of different lengths, empty ones included.
I64s(ns) == [i \in 1..Len(ns) |-> I64(ns[i])]
ConvNHWC ==
  ConvDimensionNumbersAttr(
    [inputBatchDimension |-> I64(0), inputFeatureDimension |-> I64(3),
     inputSpatialDimensions |-> I64s(<<1, 2>>),
     kernelInputFeatureDimension |-> I64(2), kernelOutputFeatureDimension |-> I64(3),
     kernelSpatialDimensions |-> I64s(<<0, 1>>),
     outputBatchDimension |-> I64(0), outputFeatureDimension |-> I64(3),
     outputSpatialDimensions |-> I64s(<<1, 2>>)])
Conv1D ==
  ConvDimensionNumbersAttr(
    [inputBatchDimension |-> I64(0), inputFeatureDimension |-> I64(1),
     inputSpatialDimensions |-> I64s(<<2>>),
     kernelInputFeatureDimension |-> I64(1), kernelOutputFeatureDimension |-> I64(0),
     kernelSpatialDimensions |-> I64s(<<2>>),
     outputBatchDimension |-> I64(0), outputFeatureDimension |-> I64(1),
     outputSpatialDimensions |-> I64s(<<2>>)])
RecordValues ==
  { ConvNHWC, Conv1D,
    GatherDimensionNumbersAttr(
      [offsetDims |-> I64s(<<1>>), collapsedSliceDims |-> I64s(<<0>>),
       startIndexMap |-> I64s(<<0, 1>>), indexVectorDim |-> I64(1)]),
    GatherDimensionNumbersAttr(
      [offsetDims |-> I64s(<<1, 0>>), collapsedSliceDims |-> I64s(<<>>),
       startIndexMap |-> I64s(<<0>>), indexVectorDim |-> I64(1)]),
    ScatterDimensionNumbersAttr(
      [updateWindowDims |-> I64s(<<1, 2>>), insertedWindowDims |-> I64s(<<0>>),
       scatterDimsToOperandDims |-> I64s(<<0>>), indexVectorDim |-> I64(1)]),
    ScatterDimensionNumbersAttr(
      [updateWindowDims |-> I64s(<<>>), insertedWindowDims |-> I64s(<<0, 1>>),
       scatterDimsToOperandDims |-> I64s(<<0, 1>>), indexVectorDim |-> I64(2)]),
    DotDimensionNumbersAttr(
      [lhsBatchingDimensions |-> I64s(<<>>), rhsBatchingDimensions |-> I64s(<<>>),
       lhsContractingDimensions |-> I64s(<<1>>), rhsContractingDimensions |-> I64s(<<0>>)]),
    DotDimensionNumbersAttr(
      [lhsBatchingDimensions |-> I64s(<<0>>), rhsBatchingDimensions |-> I64s(<<0>>),
       lhsContractingDimensions |-> I64s(<<2, 1>>),
       rhsContractingDimensions |-> I64s(<<1, 2>>)]) }
UnsupportedValues == {UnitAttr, SymbolRefAttr("f"), DictionaryAttr(<<>>)}

AttrValues ==
  IntegerValues \cup FloatValues \cup StringValues \cup ListValues \cup TensorValues
    \cup EnumValues \cup RecordValues \cup UnsupportedValues

\* The attributes around the one under study: an encodable one, one of an
\* unsupported kind, a list that fails validation.
ContextValues == {I64Attr(1), UnitAttr, ArrayAttr(<<I64Attr(1), I64Attr(2)>>)}

\* Attribute names in the order of a DictionaryAttr.
EncKeys == <<"a", "b", "c", "d">>

\* The name attribute of the composites drawn.
CompositeNames ==
  { Str("odml.update_kv_cache"), Str("odml.scaled_dot_product_attention"),
    Str("odml.other"), <<"odml.update_kv_cache", "x">> }

\* BuildOption over the attributes of one operation: a generic operation
\* carrying the list, or a composite carrying it as its composite_attributes.
InitEnc ==
  \E n \in 1..MaxAttrs :
    \E ctx \in [1..n -> ContextValues], k \in 1..n, v \in AttrValues,
       shape \in {Str("generic")} \cup CompositeNames :
      LET list == [i \in 1..n |-> NamedAttribute(EncKeys[i], IF i = k THEN v ELSE ctx[i])]
          kind == IF shape = Str("generic")
                    THEN OpKind("stablehlo", "stablehlo.custom_call", list,
                                <<"tensor<4xf32>">>, FALSE)
                    ELSE CompositeKind(shape, list)
      IN InitWalk(Graph(1, <<kind>>, <<FnId>>, <<FnId>>), <<1>>)

SpecEnc == InitEnc /\ [][Next]_vars

\* ----------------------------------------------------------------- reader
\* What a reader of the finished buffer compares with the attribute that
\* was encoded: Reference::AsInt64, AsDouble, AsString, AsTypedVector.
SameInt(i64, a) == SExt(APInt(I64Width, i64), I128Width) = SExt(a, I128Width)
SameFloat(d, f) ==
  /\ d.cls = "normal" /\ d.sign = f.sign /\ d.exp = f.exp
  /\ PadFrac(d.frac, FracDigits("f128")) = PadFrac(f.frac, FracDigits("f128"))
DecodesTo(val, attr) ==
  CASE attr.kind = "Integer" -> val.t = "INT" /\ SameInt(val.v, attr.v)
    [] attr.kind = "Float" -> val.t = "FLOAT" /\ SameFloat(val.v, attr.v)
    [] attr.kind = "String" -> val.t = "STRING" /\ val.v = attr.v
    [] attr.kind = "DenseI64Array" ->
         /\ val.t = "VECTOR" /\ val.v.typed
         /\ Len(val.v.elems) = Len(attr.v)
         /\ \A i \in 1..Len(attr.v) :
              val.v.elems[i] = FbInt(attr.v[i])
    [] OTHER -> FALSE

IndexOf(b, x) == CHOOSE i \in 1..Len(b) : b[i] = x
Names(pairs) == [i \in 1..Len(pairs) |-> pairs[i].name]
Range(f) == {f[i] : i \in DOMAIN f}
IsSource(op) == op.dialect = "stablehlo"
AllowListed(op) ==
  /\ op.name = "stablehlo.composite"
  /\ GetAttr(op, "name").v \in
       {<<"odml.update_kv_cache">>, <<"odml.scaled_dot_product_attention">>}
\* The attribute set step 2 of the per-node algorithm chooses.
AttributeSet(op) ==
  IF AllowListed(op) THEN GetAttr(op, "composite_attributes").v ELSE op.attrs
Plain(pairs) ==
  \A i \in 1..Len(pairs) :
    pairs[i].value.kind \in {"Integer", "Float", "String", "DenseI64Array"}
ReplacedNow == Len(log') = Len(log) + 1

\* ------------------------------------------------------------- properties
\* C1: a visited source node gets exactly one replacement custom node, put
\* where the node stood, with the node's operands in order, its result
\* types in order, its location, the chosen custom-op name and the payload
\* of the chosen attribute set (its keys come from that set; a set of plain
\* scalars and integer arrays decodes to itself, key by key).
C1_Step ==
  ReplacedNow =>
    LET x == Current
        n == nextId
        old == ops[x]
        at == IndexOf(body, x)
        opt == CustomOption(ops'[n])
    IN /\ DOMAIN ops' \ DOMAIN ops = {n}
       /\ body'[at] = n
       /\ SubSeq(body', 1, at - 1) = SubSeq(body, 1, at - 1)
       /\ ops'[n].parent = old.parent
       /\ ops'[n].dialect = "tfl" /\ ops'[n].name = "tfl.custom"
       /\ ops'[n].operands = old.operands
       /\ ops'[n].resultTypes = old.resultTypes
       /\ ops'[n].loc = old.loc
       /\ CustomCode(ops'[n]) = (IF AllowListed(old) THEN GetAttr(old, "name").v
                                                     ELSE <<old.name>>)
       /\ ~opt.garbage => Range(opt.root.v.keys) \subseteq Range(Names(AttributeSet(old)))
       /\ Plain(AttributeSet(old)) =>
            /\ ~opt.garbage
            /\ opt.root.v.keys = Names(AttributeSet(old))
            /\ \A i \in 1..Len(AttributeSet(old)) :
                 DecodesTo(opt.root.v.vals[i], AttributeSet(old)[i].value)
C1_OnePerSource ==
  status = "done" =>
    \A i \in DOMAIN ops0 :
      IsSource(ops0[i]) => Cardinality({k \in 1..Len(log) : log[k].orig = i}) = 1
C1_ReplacementNode == [][C1_Step]_vars /\ []C1_OnePerSource

\* The scenario of the add node: {axis: 1, scale: 2.5}, two operands, one
\* result, replaced by one custom node of the same name.
C1_Witness ==
  \E k \in 1..Len(log) :
    /\ ops0[log[k].orig].name = "stablehlo.add"
    /\ Len(log[k].operands) = 2 /\ Len(ops0[log[k].orig].resultTypes) = 1
    /\ log[k].operands[1] # log[k].operands[2]
    /\ log[k].new \in DOMAIN ops
    /\ CustomCode(ops[log[k].new]) = <<"stablehlo.add">>
    /\ CustomOption(ops[log[k].new]).root.v.keys = <<"axis", "scale">>
    /\ CustomOption(ops[log[k].new]).root.v.vals[1] = FbInt(<<1, 0, 0, 0>>)
    /\ CustomOption(ops[log[k].new]).root.v.vals[2].t = "FLOAT"
    /\ status = "done"

\* C2: when legalization is done, no operation of the source dialect is left
\* in the function: every one of them was replaced by a custom op and is gone.
C2_NoSourceRemains ==
  status = "done" =>
    /\ \A i \in DOMAIN ops : ~IsSource(ops[i])
    /\ \A i \in DOMAIN ops0 :
         IsSource(ops0[i]) =>
           /\ i \notin DOMAIN ops /\ i \notin Range(body)
           /\ \E k \in 1..Len(log) : log[k].orig = i

\* A finished run that replaced two source operations, one nested in the
\* other's region.
C2_Witness ==
  /\ status = "done"
  /\ \E j, k \in 1..Len(log) : j # k /\ ops0[log[j].orig].parent = log[k].orig

\* C3: an operation of another dialect is never replaced, never erased, is
\* the subject of no warning and of no BuildOption call; a function without
\* source operations is left as it was, without warnings.
C3_NonSourceUntouched ==
  /\ \A i \in DOMAIN ops0 :
       ~IsSource(ops0[i]) =>
         /\ i \in DOMAIN ops /\ ops[i].name = ops0[i].name /\ ops[i].attrs = ops0[i].attrs
         /\ \A k \in 1..Len(log) : log[k].orig # i
         /\ \A k \in 1..Len(calls) : calls[k].op # i
         /\ \A k \in 1..Len(diags) : diags[k].loc # ops0[i].loc
  /\ (\A i \in DOMAIN ops0 : ~IsSource(ops0[i])) =>
       /\ ops = ops0 /\ body = [i \in 1..Len(body) |-> i] /\ diags = <<>>

\* C4: the replacement of x turns every use of result i of x into a use of
\* result i of the new op and changes no other operand; no operand of an
\* operation of the function refers to an operation that is gone.
C4_Step ==
  ReplacedNow =>
    \A j \in DOMAIN ops' \ {nextId} :
      /\ Len(ops'[j].operands) = Len(ops[j].operands)
      /\ \A k \in 1..Len(ops[j].operands) :
           ops'[j].operands[k] =
             IF ops[j].operands[k].def = Current /\ ops[j].operands[k].idx >= 1
               THEN Value(nextId, ops[j].operands[k].idx)
               ELSE ops[j].operands[k]
C4_NoDangling ==
  \A j \in DOMAIN ops :
    \A k \in 1..Len(ops[j].operands) :
      /\ ops[j].operands[k].def \in DOMAIN ops
      /\ ops[j].operands[k].idx <= Len(ops[ops[j].operands[k].def].resultTypes)
C4_UsesRewired == [][C4_Step]_vars /\ []C4_NoDangling

\* A finished run in which an operation left in the function uses the
\* second result of a replacement.
C4_Witness ==
  /\ status = "done"
  /\ \E k \in 1..Len(log), j \in DOMAIN ops :
       /\ Len(ops0[log[k].orig].resultTypes) = 2
       /\ \E u \in 1..Len(ops[j].operands) : ops[j].operands[u] = Value(log[k].new, 2)

\* C8: the walk invokes the callback at most once on an operation, only on
\* operations the function held when it started and that are still in it,
\* never on one already replaced nor on a custom op it created; when the
\* walk is over it has been invoked on every one of them.
C8_Step ==
  visited' # visited =>
    /\ visited' = Append(visited, Current)
    /\ Current \in DOMAIN ops /\ Current \in DOMAIN ops0
    /\ Current \notin Range(visited)
    /\ \A k \in 1..Len(log) : Current # log[k].orig /\ Current # log[k].new
C8_Once ==
  /\ \A i, j \in 1..Len(visited) : visited[i] = visited[j] => i = j
  /\ Range(visited) \subseteq DOMAIN ops0
  /\ \A k \in 1..Len(log) : log[k].orig \in Range(visited) /\ log[k].new \notin Range(visited)
  /\ status = "done" => Range(visited) = DOMAIN ops0
C8_VisitedOnce == [][C8_Step]_vars /\ []C8_Once

\* A finished walk over a region-holding source operation with a source
\* operation inside and an operation after it: both were replaced, all
\* were visited.
C8_Witness ==
  /\ status = "done"
  /\ Len(visited) = 4
  /\ \E j, k \in 1..Len(log) :
       /\ ops0[log[j].orig].parent = log[k].orig
       /\ \E i \in DOMAIN ops0 : i > log[j].orig /\ ops0[i].parent = FnId /\ i \in Range(visited)

\* C9: legalization never aborts, whatever the attributes are, and what it
\* makes of the attributes of an operation is a map.
C9_RunsToCompletion ==
  /\ status # "crashed"
  /\ \A k \in 1..Len(log) :
       log[k].new \in DOMAIN ops => ~CustomOption(ops[log[k].new]).garbage

\* The attribute kinds the encoder has an arm for; a list is encodable when
\* each of its elements is a string or a precision.
SupportedKinds ==
  {"Integer", "Float", "String", "Elements", "DenseI64Array", "DenseBoolArray", "Array",
   "ConvDimensionNumbers", "GatherDimensionNumbers", "ScatterDimensionNumbers",
   "DotDimensionNumbers", "ComparisonDirection", "ComparisonType"}
IsSupportedKind(pair) == pair.value.kind \in SupportedKinds
IsUnsupportedKind(pair) == ~IsSupportedKind(pair)
BadList(pair) ==
  /\ pair.value.kind = "Array"
  /\ \E i \in 1..Len(pair.value.v) : pair.value.v[i].kind \notin {"String", "Precision"}
WarningsOf(msg) == SelectSeq(diags, LAMBDA d : d.msg = msg)
CallsOn(x) == SelectSeq(calls, LAMBDA c : c.op = x)
IsPrefix(a, b) == Len(a) <= Len(b) /\ a = SubSeq(b, 1, Len(a))

\* C5: of an attribute set that mixes attributes of unsupported kinds with
\* encodable ones, the payload holds exactly the keys of the supported
\* attributes, in their order; each unsupported key draws exactly one
\* 'not supported' warning, in order, and every attribute after it is
\* still passed to the encoder.
C5_Step ==
  ReplacedNow =>
    LET set == AttributeSet(ops[Current])
        opt == CustomOption(ops'[nextId])
        unsupported == SelectSeq(set, IsUnsupportedKind)
    IN (\A i \in 1..Len(set) : ~BadList(set[i])) =>
         /\ ~opt.garbage
         /\ opt.root.v.keys = Names(SelectSeq(set, IsSupportedKind))
         /\ WarningsOf(WarnUnsupported) =
              [i \in 1..Len(unsupported) |->
                 Warning(WarnUnsupported, ops[Current].loc, Str(unsupported[i].name))]
         /\ [i \in 1..Len(calls) |-> calls[i].key] = Names(set)
C5_UnsupportedSkipped == [][C5_Step]_vars

\* {a: 1, b: unit, c: 1}: keys a and c in the payload, one warning, for b.
C5_Witness ==
  /\ status = "done"
  /\ Names(ops0[1].attrs) = <<"a", "b", "c">>
  /\ ops0[1].attrs[2].value = UnitAttr
  /\ CustomOption(ops[2]).root.v.keys = <<"a", "c">>
  /\ diags = <<Warning(WarnUnsupported, 1, Str("b"))>>

\* C6: for a composite named as one of the two specializations, the custom
\* op is named by the composite's name, the attributes passed to the
\* encoder are those of composite_attributes, in order, none of the
\* composite's own, and there is no 'no specialization' warning.
C6_AllowListedComposite ==
  \A x \in DOMAIN ops0 :
    AllowListed(ops0[x]) =>
      LET inner == GetAttr(ops0[x], "composite_attributes").v
          keys == [i \in 1..Len(CallsOn(x)) |-> CallsOn(x)[i].key]
      IN /\ IsPrefix(keys, Names(inner))
         /\ \A i \in 1..Len(keys) : keys[i] \notin Range(Names(ops0[x].attrs))
         /\ WarningsOf(WarnComposite) = <<>>
         /\ \A k \in 1..Len(log) :
              log[k].orig = x =>
                /\ keys = Names(inner)
                /\ CustomCode(ops[log[k].new]) = GetAttr(ops0[x], "name").v
                /\ CustomCode(ops[log[k].new]) \in
                     {<<"odml.update_kv_cache">>, <<"odml.scaled_dot_product_attention">>}

\* The attention composite with {a: 1, b: 1} inside, replaced.
C6_Witness ==
  /\ status = "done"
  /\ CustomCode(ops[2]) = <<"odml.scaled_dot_product_attention">>
  /\ [i \in 1..Len(calls) |-> calls[i].key] = <<"a", "b">>
  /\ CustomOption(ops[2]).root.v.keys = <<"a", "b">>
  /\ diags = <<>>

\* C7: a composite of another name draws exactly one 'no specialization'
\* warning, carrying its name, and then goes the way of any source
\* operation: the custom op is named by the operation's own name and the
\* attributes passed to the encoder are the operation's own, in order. A
\* source operation that is no composite goes that way without the warning.
C7_GenericPath ==
  \A x \in DOMAIN ops0 :
    (IsSource(ops0[x]) /\ ~AllowListed(ops0[x]) /\ x \in Range(visited)) =>
      LET keys == [i \in 1..Len(CallsOn(x)) |-> CallsOn(x)[i].key]
      IN /\ WarningsOf(WarnComposite) =
              (IF ops0[x].name = "stablehlo.composite"
                 THEN <<Warning(WarnComposite, ops0[x].loc, GetAttr(ops0[x], "name").v)>>
                 ELSE <<>>)
         /\ IsPrefix(keys, Names(ops0[x].attrs))
         /\ \A k \in 1..Len(log) :
              log[k].orig = x =>
                /\ keys = Names(ops0[x].attrs)
                /\ CustomCode(ops[log[k].new]) = <<ops0[x].name>>

\* The composite "odml.other", replaced: one warning of the kind, the
\* custom op named stablehlo.composite, its four own attributes encoded.
C7_Witness ==
  /\ status = "done"
  /\ ops0[1].name = "stablehlo.composite"
  /\ GetAttr(ops0[1], "name").v = <<"odml.other">>
  /\ Len(WarningsOf(WarnComposite)) = 1
  /\ CustomCode(ops[2]) = <<"stablehlo.composite">>
  /\ [i \in 1..Len(calls) |-> calls[i].key] =
       <<"composite_attributes", "decomposition", "name", "version">>
  /\ CustomOption(ops[2]).root.v.keys = <<"name", "version">>

\* C10: an integer, float or string attribute, encoded and read back from
\* the payload, is the attribute's value, for an integer of any width up to
\* 128 bits.
C10_ScalarRoundTrip ==
  \A k \in 1..Len(log) :
    LET set == AttributeSet(ops0[log[k].orig])
        opt == CustomOption(ops[log[k].new])
    IN (\A i \in 1..Len(set) : set[i].value.kind \in {"Integer", "Float", "String"}) =>
         /\ ~opt.garbage
         /\ opt.root.v.keys = Names(set)
         /\ \A i \in 1..Len(set) : DecodesTo(opt.root.v.vals[i], set[i].value)

\* One BuildOption call: its argument, what it pushed on the builder, the
\* warnings it emitted, whether it returned.
CallNow == Len(calls') = Len(calls) + 1
Arg == Head(options)
Returned == status' # "crashed"
Pushed == SubSeq(stack', Len(stack) + 1, Len(stack'))
Warned == SubSeq(diags', Len(diags) + 1, Len(diags'))
RecordKinds ==
  {"ConvDimensionNumbers", "GatherDimensionNumbers", "ScatterDimensionNumbers",
   "DotDimensionNumbers"}
IsRecord(pair) == pair.value.kind \in RecordKinds

\* The fields of a record in the order of its encoding; array tells an
\* integer array from a scalar.
Scalar(x) == [array |-> FALSE, v |-> x]
Array(xs) == [array |-> TRUE, v |-> xs]
FieldSequence(attr) ==
  LET d == attr.v
  IN CASE attr.kind = "ConvDimensionNumbers" ->
            <<Scalar(d.inputBatchDimension), Scalar(d.inputFeatureDimension),
              Array(d.inputSpatialDimensions), Scalar(d.kernelInputFeatureDimension),
              Scalar(d.kernelOutputFeatureDimension), Array(d.kernelSpatialDimensions),
              Scalar(d.outputBatchDimension), Scalar(d.outputFeatureDimension),
              Array(d.outputSpatialDimensions)>>
       [] attr.kind = "GatherDimensionNumbers" ->
            <<Array(d.offsetDims), Array(d.collapsedSliceDims), Array(d.startIndexMap),
              Scalar(d.indexVectorDim)>>
       [] attr.kind = "ScatterDimensionNumbers" ->
            <<Array(d.updateWindowDims), Array(d.insertedWindowDims),
              Array(d.scatterDimsToOperandDims), Scalar(d.indexVectorDim)>>
       [] attr.kind = "DotDimensionNumbers" ->
            <<Array(d.lhsBatchingDimensions), Array(d.rhsBatchingDimensions),
              Array(d.lhsContractingDimensions), Array(d.rhsContractingDimensions)>>

\* A reader of a record: Reference::AsInt64 of a scalar entry, the AsInt64
\* of each entry of a nested vector.
IsIntVector(val) ==
  val.t = "VECTOR" /\ \A i \in 1..Len(val.v.elems) : val.v.elems[i].t = "INT"
AsInt64s(val) == [i \in 1..Len(val.v.elems) |-> val.v.elems[i].v]
ReadConv(e) ==
  [inputBatchDimension |-> e[1].v, inputFeatureDimension |-> e[2].v,
   inputSpatialDimensions |-> AsInt64s(e[3]),
   kernelInputFeatureDimension |-> e[4].v, kernelOutputFeatureDimension |-> e[5].v,
   kernelSpatialDimensions |-> AsInt64s(e[6]),
   outputBatchDimension |-> e[7].v, outputFeatureDimension |-> e[8].v,
   outputSpatialDimensions |-> AsInt64s(e[9])]
ReadGather(e) ==
  [offsetDims |-> AsInt64s(e[1]), collapsedSliceDims |-> AsInt64s(e[2]),
   startIndexMap |-> AsInt64s(e[3]), indexVectorDim |-> e[4].v]
ReadScatter(e) ==
  [updateWindowDims |-> AsInt64s(e[1]), insertedWindowDims |-> AsInt64s(e[2]),
   scatterDimsToOperandDims |-> AsInt64s(e[3]), indexVectorDim |-> e[4].v]
ReadDot(e) ==
  [lhsBatchingDimensions |-> AsInt64s(e[1]), rhsBatchingDimensions |-> AsInt64s(e[2]),
   lhsContractingDimensions |-> AsInt64s(e[3]), rhsContractingDimensions |-> AsInt64s(e[4])]
\* The entries are those of a record of the kind: scalars where it has
\* scalars, vectors of integers where it has arrays.
WellShaped(kind, e) ==
  LET arrays == CASE kind = "ConvDimensionNumbers" -> {3, 6, 9}
                  [] kind = "DotDimensionNumbers" -> {1, 2, 3, 4}
                  [] OTHER -> {1, 2, 3}
      n == IF kind = "ConvDimensionNumbers" THEN 9 ELSE 4
  IN /\ Len(e) = n
     /\ \A i \in 1..n : IF i \in arrays THEN IsIntVector(e[i]) ELSE e[i].t = "INT"
ReadRecord(kind, e) ==
  CASE kind = "ConvDimensionNumbers" -> ReadConv(e)
    [] kind = "GatherDimensionNumbers" -> ReadGather(e)
    [] kind = "ScatterDimensionNumbers" -> ReadScatter(e)
    [] kind = "DotDimensionNumbers" -> ReadDot(e)

\* C11: a dimension-number record of any of the four kinds, encoded and
\* read back field by field from the positions of its vector, is the
\* record: every scalar and every array, with the arrays' boundaries.
C11_Step ==
  (CallNow /\ IsRecord(Arg)) =>
    /\ Returned /\ Len(Pushed) = 2
    /\ Pushed[1] = FbKey(Arg.name)
    /\ Pushed[2].t = "VECTOR"
    /\ WellShaped(Arg.value.kind, Pushed[2].v.elems)
    /\ ReadRecord(Arg.value.kind, Pushed[2].v.elems) = Arg.value.v
C11_RecordRoundTrip == [][C11_Step]_vars

\* A scatter record whose first array is empty and whose next two have two
\* entries each, encoded under "a".
C11_Witness ==
  /\ calls = <<[op |-> 1, key |-> "a"]>>
  /\ ops0[1].name = "stablehlo.custom_call"
  /\ ops0[1].attrs[1].value.kind = "ScatterDimensionNumbers"
  /\ ops0[1].attrs[1].value.v.updateWindowDims = <<>>
  /\ Len(stack) = 2 /\ stack[1] = FbKey("a") /\ stack[2].t = "VECTOR"
  /\ Len(stack[2].v.elems) = 4
  /\ AsInt64s(stack[2].v.elems[1]) = <<>>
  /\ AsInt64s(stack[2].v.elems[2]) = <<I64(0), I64(1)>>
  /\ stack[2].v.elems[4] = FbInt(I64(2))

\* The value the payload holds under key, when it holds the key.
HasKey(opt, key) == ~opt.garbage /\ key \in Range(opt.root.v.keys)
ValueAt(opt, key) == opt.root.v.vals[IndexOf(opt.root.v.keys, key)]
EntryIs(val, field) ==
  IF field.array THEN IsIntVector(val) /\ AsInt64s(val) = field.v
                 ELSE val = FbInt(field.v)

\* C12: in the payload a record stands under its key as one untyped
\* vector whose entries are the record's fields in the fixed sequence of
\* its kind, none left out, none out of place.
C12_Step ==
  ReplacedNow =>
    LET set == AttributeSet(ops[Current])
        opt == CustomOption(ops'[nextId])
    IN (\A i \in 1..Len(set) : ~BadList(set[i])) =>
         \A i \in 1..Len(set) :
           IsRecord(set[i]) =>
             /\ HasKey(opt, set[i].name)
             /\ LET val == ValueAt(opt, set[i].name)
                    fields == FieldSequence(set[i].value)
                IN /\ val.t = "VECTOR" /\ ~val.v.typed
                   /\ Len(val.v.elems) = Len(fields)
                   /\ \A j \in 1..Len(fields) : EntryIs(val.v.elems[j], fields[j])
C12_RecordFieldOrder == [][C12_Step]_vars

\* A payload {a: 1, b: gather record}: under b a vector of four entries,
\* offsetDims [1, 0], collapsedSliceDims [], startIndexMap [0], then 1.
C12_Witness ==
  /\ status = "done"
  /\ 2 \in DOMAIN ops
  /\ HasKey(CustomOption(ops[2]), "b")
  /\ Len(ops0[1].attrs) = 2
  /\ ops0[1].attrs[2].value.kind = "GatherDimensionNumbers"
  /\ ValueAt(CustomOption(ops[2]), "b") =
       FbVector(FALSE, <<FbVector(FALSE, <<FbInt(I64(1)), FbInt(I64(0))>>),
                         FbVector(FALSE, <<>>),
                         FbVector(FALSE, <<FbInt(I64(0))>>),
                         FbInt(I64(1))>>)

\* The element types the numeric tensor rule names integer-like.
IntegerLike == {"i8", "i16", "i32", "i64", "i128", "i1"}
FloatLike == {"f32", "f64", "f128"}
IsTensor(pair) == pair.value.kind = "Elements"

\* C13: a tensor of 8, 16, 32, 64 or 128 bit integers or of booleans is
\* encoded, without warning, as the key and a typed vector of its elements
\* in order, each a signed integer.
C13_Step ==
  (CallNow /\ IsTensor(Arg) /\ Arg.value.v.etype \in IntegerLike) =>
    /\ Returned /\ Warned = <<>>
    /\ Len(Pushed) = 2 /\ Pushed[1] = FbKey(Arg.name)
    /\ Pushed[2].t = "VECTOR" /\ Pushed[2].v.typed
    /\ Len(Pushed[2].v.elems) = Len(Arg.value.v.vals)
    /\ \A i \in 1..Len(Arg.value.v.vals) :
         /\ Pushed[2].v.elems[i].t = "INT"
         /\ SameInt(Pushed[2].v.elems[i].v, Arg.value.v.vals[i])
C13_TensorIntegers == [][C13_Step]_vars

\* C14: a tensor whose element type is neither integer-like nor float-like
\* draws exactly one warning, and the call leaves the key and a closed,
\* empty, typed vector on the builder; the payload holds the key.
C14_Step ==
  /\ (CallNow /\ IsTensor(Arg) /\ Arg.value.v.etype \notin IntegerLike \cup FloatLike) =>
       /\ Returned
       /\ Warned = <<Warning(WarnElements, ops[Current].loc, Str(Arg.name))>>
       /\ Pushed = <<FbKey(Arg.name), FbVector(TRUE, <<>>)>>
  /\ ReplacedNow =>
       LET set == AttributeSet(ops[Current])
           opt == CustomOption(ops'[nextId])
       IN (\A i \in 1..Len(set) : ~BadList(set[i])) =>
            \A i \in 1..Len(set) :
              (IsTensor(set[i]) /\ set[i].value.v.etype \notin IntegerLike \cup FloatLike) =>
                /\ HasKey(opt, set[i].name)
                /\ ValueAt(opt, set[i].name) = FbVector(TRUE, <<>>)
C14_UnsupportedElementType == [][C14_Step]_vars

\* A payload {a: 1, b: complex tensor}: one warning, for b, and an empty
\* typed vector under b.
C14_Witness ==
  /\ status = "done"
  /\ 2 \in DOMAIN ops
  /\ Len(ops0[1].attrs) = 2 /\ ops0[1].name = "stablehlo.custom_call"
  /\ ops0[1].attrs[2].value.kind = "Elements"
  /\ ops0[1].attrs[2].value.v.etype = "complex"
  /\ diags = <<Warning(WarnElements, 1, Str("b"))>>
  /\ CustomOption(ops[2]).root.v.keys = <<"a", "b">>
  /\ CustomOption(ops[2]).root.v.vals[2] = FbVector(TRUE, <<>>)

\* The lists of the heterogeneous list rule.
IsList(pair) == pair.value.kind = "Array"
AllOfKind(elems, kind) == \A i \in 1..Len(elems) : elems[i].kind = kind
\* A list the validation is to reject: two or more elements, not all
\* strings and not all precisions.
FailsValidation(pair) ==
  /\ IsList(pair) /\ Len(pair.value.v) >= 2
  /\ ~AllOfKind(pair.value.v, "String") /\ ~AllOfKind(pair.value.v, "Precision")
IsEmptyVector(val) == val.t = "VECTOR" /\ val.v.elems = <<>>

\* C15: a list that fails validation draws a warning and the call leaves
\* its key and a closed, empty vector on the builder, nothing unclosed and
\* no key without a value; in the payload the list's key holds the empty
\* vector and every other encoded attribute stands under its own key.
C15_Step ==
  /\ (CallNow /\ FailsValidation(Arg)) =>
       /\ Returned
       /\ Len(Warned) = 1 /\ Warned[1].msg = WarnArray
       /\ Len(Pushed) = 2 /\ Pushed[1] = FbKey(Arg.name) /\ IsEmptyVector(Pushed[2])
  /\ ReplacedNow =>
       LET set == AttributeSet(ops[Current])
           opt == CustomOption(ops'[nextId])
       IN (\E i \in 1..Len(set) : FailsValidation(set[i])) =>
            \A i \in 1..Len(set) :
              /\ FailsValidation(set[i]) =>
                   HasKey(opt, set[i].name) /\ IsEmptyVector(ValueAt(opt, set[i].name))
              /\ set[i].value.kind = "Integer" =>
                   /\ HasKey(opt, set[i].name)
                   /\ ValueAt(opt, set[i].name).t = "INT"
C15_InvalidListEmptyVector == [][C15_Step]_vars

\* C16: a list of two elements that are neither strings nor precisions
\* draws a warning, a payload is built, and the payload does not hold the
\* list's key.
TwoNonStrings(pair) ==
  /\ IsList(pair) /\ Len(pair.value.v) = 2
  /\ \A i \in 1..2 : pair.value.v[i].kind \notin {"String", "Precision"}
C16_Step ==
  /\ (CallNow /\ TwoNonStrings(Arg)) =>
       /\ Returned
       /\ Warned = <<Warning(WarnArray, ops[Current].loc, Str(Arg.name))>>
  /\ (pc = "build" /\ options = <<>>
        /\ \E i \in 1..Len(AttributeSet(ops[Current])) :
             TwoNonStrings(AttributeSet(ops[Current])[i])) =>
       /\ ReplacedNow
       /\ ~CustomOption(ops'[nextId]).garbage
       /\ \A i \in 1..Len(AttributeSet(ops[Current])) :
            TwoNonStrings(AttributeSet(ops[Current])[i]) =>
              AttributeSet(ops[Current])[i].name
                \notin Range(CustomOption(ops'[nextId]).root.v.keys)
C16_InvalidListKeyAbsent == [][C16_Step]_vars

\* The entry a valid list element is stringified to.
Stringified(el) == IF el.kind = "Precision" THEN FbString(Str(el.v)) ELSE FbString(el.v)
NoneStringified(pushed) ==
  \A i \in 1..Len(pushed) :
    /\ pushed[i].t # "STRING"
    /\ pushed[i].t = "VECTOR" => pushed[i].v.elems = <<>>

\* C17: a list of two or more elements is accepted only when all its
\* elements are strings or all are precisions, and then the call pushes
\* one stringified entry per element, in order; any other list, also one
\* that starts with a string or a precision, is rejected with a warning
\* and none of its elements is stringified.
C17_Step ==
  (CallNow /\ IsList(Arg) /\ Len(Arg.value.v) >= 2) =>
    IF AllOfKind(Arg.value.v, "String") \/ AllOfKind(Arg.value.v, "Precision")
      THEN /\ Returned /\ Warned = <<>>
           /\ Len(Pushed) = 2 /\ Pushed[1] = FbKey(Arg.name)
           /\ Pushed[2].t = "VECTOR"
           /\ Pushed[2].v.elems =
                [i \in 1..Len(Arg.value.v) |-> Stringified(Arg.value.v[i])]
      ELSE /\ Returned
           /\ Len(Warned) = 1 /\ Warned[1].msg = WarnArray
           /\ NoneStringified(Pushed)
C17_ListValidation == [][C17_Step]_vars

\* C18: a list of one element, of whatever kind, draws no warning; the
\* call returns and leaves the key and a closed vector of one entry.
C18_Step ==
  (CallNow /\ IsList(Arg) /\ Len(Arg.value.v) = 1) =>
    /\ Returned /\ Warned = <<>>
    /\ Len(Pushed) = 2 /\ Pushed[1] = FbKey(Arg.name)
    /\ Pushed[2].t = "VECTOR" /\ Len(Pushed[2].v.elems) = 1
C18_SingleElementList == [][C18_Step]_vars

\* The entries of the enclosing vector that stand for the arrays of the
\* record.
ArrayEntries(attr, e) ==
  {e[j] : j \in {i \in 1..Len(e) : i <= Len(FieldSequence(attr)) /\ FieldSequence(attr)[i].array}}
OneEntryPerField ==
  /\ Returned /\ Len(Pushed) = 2 /\ Pushed[1] = FbKey(Arg.name)
  /\ Pushed[2].t = "VECTOR" /\ ~Pushed[2].v.typed
  /\ Len(Pushed[2].v.elems) = Len(FieldSequence(Arg.value))

\* C19, as stated: inside a record each nested integer array is a typed
\* vector, closed before the enclosing untyped vector is, which so has one
\* entry per field.
C19_StepTyped ==
  (CallNow /\ IsRecord(Arg)) =>
    /\ OneEntryPerField
    /\ \A v \in ArrayEntries(Arg.value, Pushed[2].v.elems) : IsIntVector(v) /\ v.v.typed
C19_NestedTyped == [][C19_StepTyped]_vars

\* C19, amended: inside a record each nested integer array is an untyped
\* vector of integers, closed before the enclosing untyped vector is,
\* which so has one entry per field.
C19_StepUntyped ==
  (CallNow /\ IsRecord(Arg)) =>
    /\ OneEntryPerField
    /\ \A v \in ArrayEntries(Arg.value, Pushed[2].v.elems) : IsIntVector(v) /\ ~v.v.typed
C19_NestedUntyped == [][C19_StepUntyped]_vars

\* The convolution record with two spatial dimensions, encoded under "a":
\* nine entries, the third an untyped vector of two integers.
C19_Witness ==
  /\ calls = <<[op |-> 1, key |-> "a"]>>
  /\ ops0[1].name = "stablehlo.custom_call"
  /\ ops0[1].attrs[1].value = ConvNHWC
  /\ Len(stack) = 2 /\ stack[2].t = "VECTOR"
  /\ Len(stack[2].v.elems) = 9
  /\ stack[2].v.elems[3] = FbVector(FALSE, <<FbInt(I64(1)), FbInt(I64(2))>>)

====
